---- MODULE Spec2Model ----
(***************************************************************************)
(* Model of teleop_demo/combined_teleop.py: a keyboard teleoperation node  *)
(* that turns terminal key presses into base velocity (Twist) and pan-tilt *)
(* (PanTiltCmdDeg) commands.                                               *)
(*                                                                         *)
(* A terminal byte is a string ("i", "ESC" for 0x1b, "ETX" for 0x03, " "   *)
(* for space); a token, the value get_key returns, is a sequence of bytes, *)
(* <<>> being the empty string ''.                                         *)
(*                                                                         *)
(* The floating-point scale factors speed and turn are modelled as exact   *)
(* decimal fixed-point numbers: the integer v stands for v / Unit.  The    *)
(* factors of SPEED_BINDINGS are kept in tenths (11 for 1.1, 9 for 0.9).   *)
(* The PTU angles only ever take integral values (step 2.0, limits 55.0,   *)
(* reset 0.0) and are modelled as integers.                                *)
(***************************************************************************)
EXTENDS Integers, Sequences, FiniteSets, TLC

VARIABLES
    pc,          \* position of main(): the statement executed next
    term,        \* terminal mode: "orig" (attributes of line 142) or "raw"
    stdin,       \* bytes typed at the terminal and not yet read
    key,         \* the local variable key of main() / get_key()
    node,        \* the command state held by CombinedTeleopNode
    ok,          \* rclpy.ok()
    twist_log,   \* Twist messages published on twist_pub, oldest first
    ptu_log,     \* PanTiltCmdDeg messages published on ptu_pub, oldest first
    exit_path,   \* how the while loop was left: "none", "quit", "fault", "shutdown"
    typed,       \* number of keys pressed so far (history, bounds the run)
    last_key,    \* last non-empty token the state update processed (history)
    mark,        \* Len(twist_log) when last_key was processed (history)
    hist,        \* what the arrow keys did to the angles so far (history)
    teardown     \* the steps of the finally block performed so far (history)

vars == <<pc, term, stdin, key, node, ok, twist_log, ptu_log, exit_path,
          typed, last_key, mark, hist, teardown>>

----------------------------------------------------------------------------
(* Bounds of the model *)

\* keys the operator presses in one run of Spec
MaxKeys == 2

\* timer callbacks that fire in one run of Spec
MaxTicks == 2

\* bytes the terminal holds unread
MaxBuf == 3

\* presses of one arrow key in a row that hist counts
MaxPresses == 40

\* decimal digits kept behind the point of a scale factor
ScaleDigits == MaxKeys + 2

Unit == 10 ^ ScaleDigits

----------------------------------------------------------------------------
(* Tables and settings *)

ESC == "ESC"
ETX == "ETX"

MOVE_BINDINGS ==
    (<<"i">> :> <<1, 0, 0, 0>>)   @@ (<<"o">> :> <<1, 0, 0, -1>>) @@
    (<<"j">> :> <<0, 0, 0, 1>>)   @@ (<<"l">> :> <<0, 0, 0, -1>>) @@
    (<<"u">> :> <<1, 0, 0, 1>>)   @@ (<<",">> :> <<-1, 0, 0, 0>>) @@
    (<<".">> :> <<-1, 0, 0, 1>>)  @@ (<<"m">> :> <<-1, 0, 0, -1>>) @@
    (<<"O">> :> <<1, -1, 0, 0>>)  @@ (<<"I">> :> <<1, 0, 0, 0>>) @@
    (<<"J">> :> <<0, 1, 0, 0>>)   @@ (<<"L">> :> <<0, -1, 0, 0>>) @@
    (<<"U">> :> <<1, 1, 0, 0>>)   @@ (<<"<">> :> <<-1, 0, 0, 0>>) @@
    (<<">">> :> <<-1, -1, 0, 0>>) @@ (<<"M">> :> <<-1, 1, 0, 0>>) @@
    (<<"t">> :> <<0, 0, 1, 0>>)   @@ (<<"b">> :> <<0, 0, -1, 0>>)

\* factors in tenths: <<linear, angular>>
SPEED_BINDINGS ==
    (<<"q">> :> <<11, 11>>) @@ (<<"z">> :> <<9, 9>>) @@
    (<<"w">> :> <<11, 10>>) @@ (<<"x">> :> <<9, 10>>) @@
    (<<"e">> :> <<10, 11>>) @@ (<<"c">> :> <<10, 9>>)

\* <<pan direction, tilt direction>>
PTU_BINDINGS ==
    (<<ESC, "[", "A">> :> <<0, -1>>) @@ (<<ESC, "[", "B">> :> <<0, 1>>) @@
    (<<ESC, "[", "D">> :> <<1, 0>>)  @@ (<<ESC, "[", "C">> :> <<-1, 0>>)

SPACE == <<" ">>

ptu_step == 2
max_pan == 55
min_pan == 0 - 55
max_tilt == 55
min_tilt == 0 - 55
PTU_SPEED == 30

\* CombinedTeleopNode.__init__: speed 0.5, turn 1.0, everything else zero
InitNode ==
    [x |-> 0, y |-> 0, z |-> 0, th |-> 0,
     speed |-> Unit \div 2, turn |-> Unit,
     pan_angle |-> 0, tilt_angle |-> 0]

----------------------------------------------------------------------------
(* The state update of the main loop, lines 153-178 *)

Min(a, b) == IF a < b THEN a ELSE b
Max(a, b) == IF a > b THEN a ELSE b

\* Clamp without its upper limit: max(lo, v)
ClampLowOnly(lo, hi, v) == Max(lo, v)

\* Clamp with the limits taken as exclusive: max(lo + 1, min(hi - 1, v))
ClampInside(lo, hi, v) == Max(lo + 1, Min(hi - 1, v))

\* max(lo, min(hi, v))
Clamp(lo, hi, v) == Max(lo, Min(hi, v))

\* Scale adding the step instead of multiplying: v += f - 1.0
ScaleAdd(v, f) == v + ((f - 10) * Unit) \div 10

\* v *= f, f in tenths
Scale(v, f) == (v * f) \div 10

\* RobotControl whose movement branch leaves th as it was
RobotControlNoYaw(n, k) ==
    IF k \in DOMAIN MOVE_BINDINGS
    THEN [n EXCEPT !.x = MOVE_BINDINGS[k][1], !.y = MOVE_BINDINGS[k][2],
                   !.z = MOVE_BINDINGS[k][3]]
    ELSE IF k \in DOMAIN SPEED_BINDINGS
    THEN [n EXCEPT !.speed = (@ * SPEED_BINDINGS[k][1]) \div 10,
                   !.turn = (@ * SPEED_BINDINGS[k][2]) \div 10]
    ELSE IF k \notin DOMAIN PTU_BINDINGS /\ k # SPACE
    THEN [n EXCEPT !.x = 0, !.y = 0, !.z = 0, !.th = 0]
    ELSE n

\* RobotControl whose stop clause does not exempt space
RobotControlStopOnSpace(n, k) ==
    IF k \in DOMAIN MOVE_BINDINGS
    THEN [n EXCEPT !.x = MOVE_BINDINGS[k][1], !.y = MOVE_BINDINGS[k][2],
                   !.z = MOVE_BINDINGS[k][3], !.th = MOVE_BINDINGS[k][4]]
    ELSE IF k \in DOMAIN SPEED_BINDINGS
    THEN [n EXCEPT !.speed = (@ * SPEED_BINDINGS[k][1]) \div 10,
                   !.turn = (@ * SPEED_BINDINGS[k][2]) \div 10]
    ELSE IF k \notin DOMAIN PTU_BINDINGS
    THEN [n EXCEPT !.x = 0, !.y = 0, !.z = 0, !.th = 0]
    ELSE n

\* lines 153-164: the if / elif / else of "Robot Control Logic"
RobotControl(n, k) ==
    IF k \in DOMAIN MOVE_BINDINGS
    THEN [n EXCEPT !.x = MOVE_BINDINGS[k][1], !.y = MOVE_BINDINGS[k][2],
                   !.z = MOVE_BINDINGS[k][3], !.th = MOVE_BINDINGS[k][4]]
    ELSE IF k \in DOMAIN SPEED_BINDINGS
    THEN [n EXCEPT !.speed = Scale(@, SPEED_BINDINGS[k][1]),
                   !.turn = Scale(@, SPEED_BINDINGS[k][2])]
    ELSE IF k \notin DOMAIN PTU_BINDINGS /\ k # SPACE
    THEN [n EXCEPT !.x = 0, !.y = 0, !.z = 0, !.th = 0]
    ELSE n

\* lines 165-166: the break sits in the else branch of the if / elif chain
Breaks(k) ==
    /\ k \notin DOMAIN MOVE_BINDINGS
    /\ k \notin DOMAIN SPEED_BINDINGS
    /\ (k = <<"q">> \/ k = <<ETX>>)

\* PTUControl that resets the angles on every token that is not an arrow
PTUControlElse(n, k) ==
    IF k \in DOMAIN PTU_BINDINGS
    THEN [n EXCEPT
            !.pan_angle  = Max(min_pan, Min(max_pan, @ + PTU_BINDINGS[k][1] * ptu_step)),
            !.tilt_angle = Max(min_tilt, Min(max_tilt, @ + PTU_BINDINGS[k][2] * ptu_step))]
    ELSE [n EXCEPT !.pan_angle = 0, !.tilt_angle = 0]

\* PTUControl reading the two columns of PTU_BINDINGS the wrong way round
PTUControlSwapped(n, k) ==
    IF k \in DOMAIN PTU_BINDINGS
    THEN [n EXCEPT
            !.pan_angle  = Max(min_pan, Min(max_pan, @ + PTU_BINDINGS[k][2] * ptu_step)),
            !.tilt_angle = Max(min_tilt, Min(max_tilt, @ + PTU_BINDINGS[k][1] * ptu_step))]
    ELSE IF k = SPACE
    THEN [n EXCEPT !.pan_angle = 0, !.tilt_angle = 0]
    ELSE n

\* lines 169-178: "PTU Control Logic"
PTUControl(n, k) ==
    IF k \in DOMAIN PTU_BINDINGS
    THEN [n EXCEPT
            !.pan_angle  = Clamp(min_pan, max_pan, @ + PTU_BINDINGS[k][1] * ptu_step),
            !.tilt_angle = Clamp(min_tilt, max_tilt, @ + PTU_BINDINGS[k][2] * ptu_step)]
    ELSE IF k = SPACE
    THEN [n EXCEPT !.pan_angle = 0, !.tilt_angle = 0]
    ELSE n

\* the arrow key that decreases pan: Right Arrow, (-1, 0)
PAN_DECREASE == <<ESC, "[", "C">>

\* nothing pressed yet, no angle clamped yet
InitHist == [run |-> 0, pan_clamped |-> FALSE, tilt_clamped |-> FALSE]

\* lines 170-171 would leave [lo, hi] with angle a and direction d: the
\* clamp of lines 174-175 changes the value
Overshoots(lo, hi, a, d) == a + d * ptu_step < lo \/ a + d * ptu_step > hi

\* the history after token k is processed in command state n:
\* run is the number of PAN_DECREASE tokens in a row since pan was 0 (idle
\* polls in between not counted); pan_clamped and tilt_clamped tell whether
\* the clamp changed the angle since it was last set to 0
HistAfter(h, n, k) ==
    IF k \in DOMAIN PTU_BINDINGS /\ ~Breaks(k)
    THEN [run |-> IF k # PAN_DECREASE THEN 0
                  ELSE IF n.pan_angle = 0 THEN 1
                  ELSE IF h.run > 0 THEN Min(h.run + 1, MaxPresses)
                  ELSE 0,
          pan_clamped |-> h.pan_clamped
              \/ Overshoots(min_pan, max_pan, n.pan_angle, PTU_BINDINGS[k][1]),
          tilt_clamped |-> h.tilt_clamped
              \/ Overshoots(min_tilt, max_tilt, n.tilt_angle, PTU_BINDINGS[k][2])]
    ELSE IF k = SPACE
    THEN InitHist
    ELSE IF k = <<>>
    THEN h
    ELSE [h EXCEPT !.run = 0]

\* the command state after one pass over lines 153-178 with token k
UpdateState(n, k) ==
    IF Breaks(k) THEN RobotControl(n, k)
    ELSE PTUControl(RobotControl(n, k), k)

----------------------------------------------------------------------------
(* Messages *)

\* publish_commands scaling the yaw rate by speed instead of turn
TwistOfSpeedOnly(n) ==
    [lx |-> n.x * n.speed, ly |-> n.y * n.speed, lz |-> n.z * n.speed,
     ax |-> 0, ay |-> 0, az |-> n.th * n.speed]

\* publish_commands, lines 120-126
TwistOf(n) ==
    [lx |-> n.x * n.speed, ly |-> n.y * n.speed, lz |-> n.z * n.speed,
     ax |-> 0, ay |-> 0, az |-> n.th * n.turn]

\* publish_commands, lines 130-133
PtuOf(n) == [speed |-> PTU_SPEED, yaw |-> n.pan_angle, pitch |-> n.tilt_angle]

\* Twist(): every field zero
ZeroTwist == [lx |-> 0, ly |-> 0, lz |-> 0, ax |-> 0, ay |-> 0, az |-> 0]

\* a log entry: the message and the method that published it
Entry(by, msg) == [by |-> by, msg |-> msg]

----------------------------------------------------------------------------
(* The operator and the middleware *)

\* what one key press sends: a letter, space, Ctrl-C, the Esc key, an arrow key
Keyboard ==
    { <<"i">>, <<"J">>, <<"q">>, <<"k">>, SPACE, <<ETX>>, <<ESC>>,
      <<ESC, "[", "D">>, <<ESC, "[", "A">> }

Running == pc \notin {"done", "crashed"}

\* the operator presses a key: its bytes queue up at the terminal
KeyPress(k) ==
    /\ Running
    /\ typed < MaxKeys
    /\ Len(stdin) + Len(k) <= MaxBuf
    /\ stdin' = stdin \o k
    /\ typed' = typed + 1
    /\ UNCHANGED <<pc, term, key, node, ok, twist_log, ptu_log, exit_path,
                   last_key, mark, hist, teardown>>

\* the rclpy context is shut down from outside (signal handler)
ShutdownSignal ==
    /\ Running
    /\ ok
    /\ pc \notin {"stop_robot", "restore", "destroy_node", "shutdown"}
    /\ ok' = FALSE
    /\ UNCHANGED <<pc, term, stdin, key, node, twist_log, ptu_log, exit_path,
                   typed, last_key, mark, hist, teardown>>

----------------------------------------------------------------------------
(* main(), lines 148-192 *)

\* line 149: while rclpy.ok()
While ==
    /\ pc = "while"
    /\ IF ok
       THEN pc' = "setraw" /\ UNCHANGED exit_path
       ELSE pc' = "stop_robot" /\ exit_path' = "shutdown"
    /\ UNCHANGED <<term, stdin, key, node, ok, twist_log, ptu_log,
                   typed, last_key, mark, hist, teardown>>

\* line 62: tty.setraw
SetRaw ==
    /\ pc = "setraw"
    /\ term' = "raw"
    /\ pc' = "select"
    /\ UNCHANGED <<stdin, key, node, ok, twist_log, ptu_log, exit_path,
                   typed, last_key, mark, hist, teardown>>

\* Select whose timeout branch returns '' at once, line 70 being reached
\* only after a read
SelectReturnsOnTimeout ==
    /\ pc = "select"
    /\ IF stdin # <<>>
       THEN pc' = "read1" /\ UNCHANGED key
       ELSE pc' = "update" /\ key' = <<>>
    /\ UNCHANGED <<term, stdin, node, ok, twist_log, ptu_log, exit_path,
                   typed, last_key, mark, hist, teardown>>

\* lines 63-64, 68-69: select with the 0.1 s timeout; no input gives key = ''
Select ==
    /\ pc = "select"
    /\ IF stdin # <<>>
       THEN pc' = "read1" /\ UNCHANGED key
       ELSE pc' = "tcsetattr" /\ key' = <<>>
    /\ UNCHANGED <<term, stdin, node, ok, twist_log, ptu_log, exit_path,
                   typed, last_key, mark, hist, teardown>>

\* lines 65-66: read(1)
Read1 ==
    /\ pc = "read1"
    /\ stdin # <<>>
    /\ key' = <<Head(stdin)>>
    /\ stdin' = Tail(stdin)
    /\ pc' = IF Head(stdin) = ESC THEN "read2" ELSE "tcsetattr"
    /\ UNCHANGED <<term, node, ok, twist_log, ptu_log, exit_path,
                   typed, last_key, mark, hist, teardown>>

\* line 67: read(2) returns once two more characters have arrived
Read2 ==
    /\ pc = "read2"
    /\ Len(stdin) >= 2
    /\ key' = key \o SubSeq(stdin, 1, 2)
    /\ stdin' = SubSeq(stdin, 3, Len(stdin))
    /\ pc' = "tcsetattr"
    /\ UNCHANGED <<term, node, ok, twist_log, ptu_log, exit_path,
                   typed, last_key, mark, hist, teardown>>

\* line 70: termios.tcsetattr(..., settings), then return key
TcSetAttr ==
    /\ pc = "tcsetattr"
    /\ term' = "orig"
    /\ pc' = "update"
    /\ UNCHANGED <<stdin, key, node, ok, twist_log, ptu_log, exit_path,
                   typed, last_key, mark, hist, teardown>>

\* a terminal call of get_key (setraw, select, read) raises
GetKeyFault ==
    /\ pc \in {"setraw", "select", "read1", "read2"}
    /\ pc' = "except"
    /\ exit_path' = "fault"
    /\ UNCHANGED <<term, stdin, key, node, ok, twist_log, ptu_log,
                   typed, last_key, mark, hist, teardown>>

\* lines 153-178: the state update for the token just read
Update ==
    /\ pc = "update"
    /\ node' = UpdateState(node, key)
    /\ IF Breaks(key)
       THEN pc' = "stop_robot" /\ exit_path' = "quit"
       ELSE pc' = "print_status" /\ UNCHANGED exit_path
    /\ IF key # <<>>
       THEN last_key' = key /\ mark' = Len(twist_log)
       ELSE UNCHANGED <<last_key, mark>>
    /\ hist' = HistAfter(hist, node, key)
    /\ UNCHANGED <<term, stdin, key, ok, twist_log, ptu_log, typed, teardown>>

\* line 180: print_status reads the state and writes the status line
PrintStatus ==
    /\ pc = "print_status"
    /\ pc' = "spin_once"
    /\ UNCHANGED <<term, stdin, key, node, ok, twist_log, ptu_log, exit_path,
                   typed, last_key, mark, hist, teardown>>

\* the timer callback run by an executor thread of its own, at any point of
\* the loop body
TimerRunsAnyTime ==
    pc \in {"update", "move_y", "move_z", "move_th", "print_status", "spin_once"}

\* the node has no executor of its own: its timer callback runs only inside
\* the spin_once call of line 182, on the thread of main()
TimerRuns == pc = "spin_once"

\* line 182, timer due: spin_once runs publish_commands (lines 118-134)
SpinOnceTimer ==
    /\ TimerRuns
    /\ Len(twist_log) < MaxTicks
    /\ twist_log' = Append(twist_log, Entry("publish_commands", TwistOf(node)))
    /\ ptu_log' = Append(ptu_log, PtuOf(node))
    /\ pc' = "while"
    /\ UNCHANGED <<term, stdin, key, node, ok, exit_path, typed, last_key, mark, hist, teardown>>

\* line 182, nothing due within 0.01 s
SpinOnceIdle ==
    /\ pc = "spin_once"
    /\ pc' = "while"
    /\ UNCHANGED <<term, stdin, key, node, ok, twist_log, ptu_log, exit_path,
                   typed, last_key, mark, hist, teardown>>

\* line 182, timer due and a publish of publish_commands raises:
\* line 127 (nothing sent) or line 134 (the Twist is already out)
SpinOnceFault ==
    /\ pc = "spin_once"
    /\ \/ UNCHANGED twist_log
       \/ /\ Len(twist_log) < MaxTicks
          /\ twist_log' = Append(twist_log, Entry("publish_commands", TwistOf(node)))
    /\ pc' = "except"
    /\ exit_path' = "fault"
    /\ UNCHANGED <<term, stdin, key, node, ok, ptu_log, typed, last_key, mark, hist, teardown>>

\* lines 184-185: except Exception: print the error
Except ==
    /\ pc = "except"
    /\ pc' = "stop_robot"
    /\ UNCHANGED <<term, stdin, key, node, ok, twist_log, ptu_log, exit_path,
                   typed, last_key, mark, hist, teardown>>

\* lines 187-188, 136-139: node.stop_robot() publishes Twist()
StopRobot ==
    /\ pc = "stop_robot"
    /\ twist_log' = Append(twist_log, Entry("stop_robot", ZeroTwist))
    /\ pc' = "restore"
    /\ teardown' = Append(teardown, "stop_robot")
    /\ UNCHANGED <<term, stdin, key, node, ok, ptu_log, exit_path,
                   typed, last_key, mark, hist>>

\* line 139 raises inside the finally block: the rest of it is skipped
StopRobotFault ==
    /\ pc = "stop_robot"
    /\ pc' = "crashed"
    /\ UNCHANGED <<term, stdin, key, node, ok, twist_log, ptu_log, exit_path,
                   typed, last_key, mark, hist, teardown>>

\* line 190: termios.tcsetattr(..., settings)
RestoreTerminal ==
    /\ pc = "restore"
    /\ term' = "orig"
    /\ pc' = "destroy_node"
    /\ teardown' = Append(teardown, "tcsetattr")
    /\ UNCHANGED <<stdin, key, node, ok, twist_log, ptu_log, exit_path,
                   typed, last_key, mark, hist>>

\* line 191: node.destroy_node()
DestroyNode ==
    /\ pc = "destroy_node"
    /\ pc' = "shutdown"
    /\ teardown' = Append(teardown, "destroy_node")
    /\ UNCHANGED <<term, stdin, key, node, ok, twist_log, ptu_log, exit_path,
                   typed, last_key, mark, hist>>

\* line 192: rclpy.shutdown()
RclpyShutdown ==
    /\ pc = "shutdown"
    /\ ok' = FALSE
    /\ pc' = "done"
    /\ teardown' = Append(teardown, "shutdown")
    /\ UNCHANGED <<term, stdin, key, node, twist_log, ptu_log, exit_path,
                   typed, last_key, mark, hist>>

----------------------------------------------------------------------------
(* The program from construction on *)

\* lines 142-146: settings captured, node constructed, nothing typed or sent
Init ==
    /\ pc = "while"
    /\ term = "orig"
    /\ stdin = <<>>
    /\ key = <<>>
    /\ node = InitNode
    /\ ok = TRUE
    /\ twist_log = <<>>
    /\ ptu_log = <<>>
    /\ exit_path = "none"
    /\ typed = 0
    /\ last_key = <<>>
    /\ mark = 0
    /\ hist = InitHist
    /\ teardown = <<>>

\* the steps the process takes by itself
LoopStep ==
    \/ While \/ SetRaw \/ Select \/ Read1 \/ Read2 \/ TcSetAttr
    \/ PrintStatus \/ SpinOnceTimer \/ SpinOnceIdle
    \/ Except \/ StopRobot \/ RestoreTerminal \/ DestroyNode \/ RclpyShutdown

ProgramStep == LoopStep \/ Update

\* what the terminal, the bus and the operator may do to it
EnvStep ==
    \/ \E k \in Keyboard : KeyPress(k)
    \/ ShutdownSignal
    \/ GetKeyFault
    \/ SpinOnceFault
    \/ StopRobotFault

Next == ProgramStep \/ EnvStep

Spec == Init /\ [][Next]_vars

----------------------------------------------------------------------------
(* The same program with the movement branch of the state update taken one *)
(* assignment at a time (lines 154-157), the operator, the signal and the  *)
(* faults acting in between.                                               *)

\* lines 153-154: key in MOVE_BINDINGS, node.x assigned
MoveX ==
    /\ pc = "update"
    /\ key \in DOMAIN MOVE_BINDINGS
    /\ node' = [node EXCEPT !.x = MOVE_BINDINGS[key][1]]
    /\ pc' = "move_y"
    /\ UNCHANGED <<term, stdin, key, ok, twist_log, ptu_log, exit_path,
                   typed, last_key, mark, hist, teardown>>

\* line 155: node.y assigned
MoveY ==
    /\ pc = "move_y"
    /\ node' = [node EXCEPT !.y = MOVE_BINDINGS[key][2]]
    /\ pc' = "move_z"
    /\ UNCHANGED <<term, stdin, key, ok, twist_log, ptu_log, exit_path,
                   typed, last_key, mark, hist, teardown>>

\* line 156: node.z assigned
MoveZ ==
    /\ pc = "move_z"
    /\ node' = [node EXCEPT !.z = MOVE_BINDINGS[key][3]]
    /\ pc' = "move_th"
    /\ UNCHANGED <<term, stdin, key, ok, twist_log, ptu_log, exit_path,
                   typed, last_key, mark, hist, teardown>>

\* line 157: node.th assigned; lines 169-178 do nothing for a movement token
MoveTh ==
    /\ pc = "move_th"
    /\ node' = [node EXCEPT !.th = MOVE_BINDINGS[key][4]]
    /\ pc' = "print_status"
    /\ last_key' = key
    /\ mark' = Len(twist_log)
    /\ hist' = HistAfter(hist, node, key)
    /\ UNCHANGED <<term, stdin, key, ok, twist_log, ptu_log, exit_path,
                   typed, teardown>>

\* lines 158-178 for a token that is not in MOVE_BINDINGS
UpdateOther ==
    /\ key \notin DOMAIN MOVE_BINDINGS
    /\ Update

NextSteps ==
    \/ LoopStep \/ EnvStep
    \/ MoveX \/ MoveY \/ MoveZ \/ MoveTh \/ UpdateOther

SpecSteps == Init /\ [][NextSteps]_vars

----------------------------------------------------------------------------
(* The scheduler runs the process whenever it can take a step; the         *)
(* operator, the signal and the faults are under no obligation.            *)

FairSpec == Spec /\ WF_vars(ProgramStep)

----------------------------------------------------------------------------
(* The state update on its own: any command state the program can hold,    *)
(* any token get_key can return, one pass over lines 153-178.              *)

\* every token of the three tables, space, '', Ctrl-C, an unbound letter and
\* two escape sequences no table knows
Tokens ==
    DOMAIN MOVE_BINDINGS \cup DOMAIN SPEED_BINDINGS \cup DOMAIN PTU_BINDINGS
    \cup { SPACE, <<>>, <<ETX>>, <<"k">>, <<ESC, "[", "Z">>, <<ESC, "i", "k">> }

\* the intent vectors the program can hold: zero or a row of MOVE_BINDINGS
Intents == { MOVE_BINDINGS[k] : k \in DOMAIN MOVE_BINDINGS } \cup { <<0, 0, 0, 0>> }

\* scale factors after no speed key, after one increase, after one decrease
Speeds == { Unit \div 2, Scale(Unit \div 2, 11), Scale(Unit \div 2, 9) }
Turns == { Unit, Scale(Unit, 11), Scale(Unit, 9) }

\* angles at the limits, next to them and in between
Pans == { min_pan, min_pan + 1, 0, max_pan - 2, max_pan }
Tilts == { min_tilt, 0 - 2, 0, max_tilt - 1, max_tilt }

PriorNodes ==
    { [x |-> i[1], y |-> i[2], z |-> i[3], th |-> i[4],
       speed |-> s, turn |-> t, pan_angle |-> p, tilt_angle |-> q] :
      i \in Intents, s \in Speeds, t \in Turns, p \in Pans, q \in Tilts }

\* a history that fits command state n: an angle is odd exactly when the
\* clamp has set it
HistOf(n) ==
    [run |-> 0, pan_clamped |-> n.pan_angle % 2 = 1,
     tilt_clamped |-> n.tilt_angle % 2 = 1]

\* main() at line 153, get_key having just returned
InitUpdate ==
    /\ pc = "update"
    /\ term = "orig"
    /\ stdin = <<>>
    /\ key \in Tokens
    /\ node \in PriorNodes
    /\ ok = TRUE
    /\ twist_log = <<>>
    /\ ptu_log = <<>>
    /\ exit_path = "none"
    /\ typed = 0
    /\ last_key = <<>>
    /\ mark = 0
    /\ hist = HistOf(node)
    /\ teardown = <<>>

NextUpdate == Update

SpecUpdate == InitUpdate /\ [][NextUpdate]_vars

----------------------------------------------------------------------------
(* The event-processing step on its own: main() at line 182, a token just  *)
(* processed in any command state, the timer having fired once before the  *)
(* key was read or not at all.                                             *)

InitPublish ==
    \E prior \in PriorNodes, k \in Tokens, fired \in BOOLEAN :
        /\ ~Breaks(k)
        /\ pc = "spin_once"
        /\ term = "orig"
        /\ stdin = <<>>
        /\ key = k
        /\ node = UpdateState(prior, k)
        /\ ok = TRUE
        /\ twist_log = IF fired THEN <<Entry("publish_commands", TwistOf(prior))>>
                       ELSE <<>>
        /\ ptu_log = IF fired THEN <<PtuOf(prior)>> ELSE <<>>
        /\ exit_path = "none"
        /\ typed = 0
        /\ last_key = k
        /\ mark = IF fired THEN 1 ELSE 0
        /\ hist = HistAfter(HistOf(prior), prior, k)
        /\ teardown = <<>>

NextPublish == SpinOnceTimer \/ SpinOnceIdle \/ SpinOnceFault

SpecPublish == InitPublish /\ [][NextPublish]_vars

----------------------------------------------------------------------------
(* Whole passes of the loop body, from construction on: get_key returns k, *)
(* the state is updated, and spin_once runs the timer callback or not.     *)
(* No fault, no quit.  The logs hold what the latest pass published.       *)

PTUKeys == DOMAIN PTU_BINDINGS \cup { SPACE, <<"i">>, <<"k">> }

\* lines 149-182, one iteration with token k
Iteration(k) ==
    /\ pc = "while"
    /\ ok
    /\ ~Breaks(k)
    /\ key' = k
    /\ node' = UpdateState(node, k)
    /\ \/ /\ twist_log' = <<Entry("publish_commands", TwistOf(node'))>>
          /\ ptu_log' = <<PtuOf(node')>>
       \/ /\ twist_log' = <<>>
          /\ ptu_log' = <<>>
    /\ last_key' = IF k # <<>> THEN k ELSE last_key
    /\ hist' = HistAfter(hist, node, k)
    /\ UNCHANGED <<pc, term, stdin, ok, exit_path, typed, mark, teardown>>

NextPTU == \E k \in PTUKeys : Iteration(k)

SpecPTU == Init /\ [][NextPTU]_vars

----------------------------------------------------------------------------
(* Properties *)

Ended == pc \in {"done", "crashed"}

Intent(n) == <<n.x, n.y, n.z, n.th>>

InNoTable(k) ==
    /\ k \notin DOMAIN MOVE_BINDINGS
    /\ k \notin DOMAIN SPEED_BINDINGS
    /\ k \notin DOMAIN PTU_BINDINGS

\* C1: when the state update processes the token 'q' or the interrupt byte
\* 0x03, the loop ends in that iteration: the next statement is the teardown,
\* not the status report or another key read.
C1_QuitTokenEndsLoop ==
    [][(pc = "update" /\ pc' # "update" /\ key \in {<<"q">>, <<ETX>>})
          => pc' = "stop_robot"]_vars

\* C2: once 'i' is the last key the update processed, the first two timer
\* publishes after it (every key read since having returned '') carry the same
\* Twist, and its linear.x is not zero.
C2_IntentPersistsAcrossIdlePolls ==
    (/\ last_key = <<"i">>
     /\ Len(twist_log) >= mark + 2
     /\ twist_log[mark + 1].by = "publish_commands"
     /\ twist_log[mark + 2].by = "publish_commands")
    => /\ twist_log[mark + 1].msg = twist_log[mark + 2].msg
       /\ twist_log[mark + 1].msg.lx # 0

\* C3: a run that left the loop by the quit token or by a fault has, when the
\* process ends, exactly one Twist published by stop_robot, all zero, and it
\* is the last Twist published.
C3_OneStopMessageOnExit ==
    (Ended /\ exit_path \in {"quit", "fault"})
    => /\ Cardinality({i \in DOMAIN twist_log : twist_log[i].by = "stop_robot"}) = 1
       /\ twist_log[Len(twist_log)] = Entry("stop_robot", ZeroTwist)

\* C4: a run that left the loop by the quit token or by a fault (also one
\* raised in raw mode) ends with the terminal in its original mode.
C4_TerminalRestoredOnExit ==
    (Ended /\ exit_path \in {"quit", "fault"}) => term = "orig"

\* C5: pan and tilt lie in [-55, 55] in every reachable state, and so do the
\* yaw and pitch of every pan-tilt message published.
C5_AngleRange ==
    /\ node.pan_angle \in (0 - 55)..55
    /\ node.tilt_angle \in (0 - 55)..55
    /\ \A i \in DOMAIN ptu_log :
          /\ ptu_log[i].yaw \in (0 - 55)..55
          /\ ptu_log[i].pitch \in (0 - 55)..55

\* pan clamped at the upper limit, tilt at the lower one, and published so
C5_Witness ==
    /\ node.pan_angle = 55
    /\ node.tilt_angle = 0 - 55
    /\ ptu_log = <<[speed |-> 30, yaw |-> 55, pitch |-> 0 - 55]>>

\* C6: a movement token sets the intent to exactly its row of the table,
\* whatever the intent was, and leaves both scale factors and both angles.
C6_MovementToken ==
    [][(pc = "update" /\ pc' # "update" /\ key \in DOMAIN MOVE_BINDINGS)
          => /\ Intent(node') = MOVE_BINDINGS[key]
             /\ node'.speed = node.speed /\ node'.turn = node.turn
             /\ node'.pan_angle = node.pan_angle
             /\ node'.tilt_angle = node.tilt_angle]_vars

\* 'M' processed with scaled factors and tilted head: intent (-1, 1, 0, 0)
C6_Witness ==
    /\ pc = "print_status"
    /\ key = <<"M">>
    /\ Intent(node) = <<0 - 1, 1, 0, 0>>
    /\ node.speed = Scale(Unit \div 2, 9)
    /\ node.tilt_angle = 54

\* C7: a speed token multiplies the linear scale by its linear factor and the
\* angular scale by its angular factor (a second 'q' takes 1.1 to 1.21, not
\* 1.2), leaves the intent and both angles, and the loop goes on.
C7_SpeedToken ==
    [][(pc = "update" /\ pc' # "update" /\ key \in DOMAIN SPEED_BINDINGS)
          => /\ node'.speed * 10 = node.speed * SPEED_BINDINGS[key][1]
             /\ node'.turn * 10 = node.turn * SPEED_BINDINGS[key][2]
             /\ (key = <<"q">> /\ node.turn * 10 = 11 * Unit
                    => node'.turn * 100 = 121 * Unit)
             /\ Intent(node') = Intent(node)
             /\ node'.pan_angle = node.pan_angle
             /\ node'.tilt_angle = node.tilt_angle]_vars

\* the second 'q' from (0.5, 1.0): scales (0.605, 1.21), intent still set
C7_Witness ==
    /\ pc = "print_status"
    /\ key = <<"q">>
    /\ node.speed * 1000 = 605 * Unit
    /\ node.turn * 100 = 121 * Unit
    /\ Intent(node) = <<1, 0, 0, 0 - 1>>

C9_ResetToken ==
    [][(pc = "update" /\ pc' # "update" /\ key = SPACE)
          => /\ node'.pan_angle = 0 /\ node'.tilt_angle = 0
             /\ Intent(node') = Intent(node)
             /\ node'.speed = node.speed /\ node'.turn = node.turn]_vars

\* space processed while driving: angles 0, intent and scales kept
C9_Witness ==
    /\ pc = "print_status"
    /\ key = SPACE
    /\ node.pan_angle = 0 /\ node.tilt_angle = 0
    /\ Intent(node) = <<1, 1, 0, 0>>
    /\ node.speed = Scale(Unit \div 2, 11)

\* C10: every call of get_key returns: from its first statement the loop
\* always gets to the state update (or, at worst, to the fault handler).
C10_KeyReadReturns == (pc = "setraw") ~> (pc \in {"update", "except"})

\* C11: a timer callback that runs to its end publishes exactly one Twist,
\* linear = (x, y, z) * speed, angular = (0, 0, th * turn), and exactly one
\* pan-tilt command, speed 30, yaw = pan, pitch = tilt, from the command
\* state as it is then, also when nothing changed since the tick before;
\* no step publishes more than one of either or a pan-tilt command alone.
C11_PublishTickContent ==
    [][pc = "spin_once"
          => /\ twist_log' # twist_log
                => twist_log' = Append(twist_log,
                       [by |-> "publish_commands",
                        msg |-> [lx |-> node.x * node.speed,
                                 ly |-> node.y * node.speed,
                                 lz |-> node.z * node.speed,
                                 ax |-> 0, ay |-> 0,
                                 az |-> node.th * node.turn]])
             /\ ptu_log' # ptu_log
                => /\ ptu_log' = Append(ptu_log,
                         [speed |-> 30, yaw |-> node.pan_angle,
                          pitch |-> node.tilt_angle])
                   /\ twist_log' # twist_log
             /\ (pc' = "while" /\ twist_log' # twist_log) => ptu_log' # ptu_log
      ]_vars

\* two ticks around a key that changed nothing: the same turning Twist and
\* the same pan-tilt command twice
C11_Witness ==
    /\ pc = "while"
    /\ Len(twist_log) = 2 /\ twist_log[1] = twist_log[2]
    /\ twist_log[2].msg.az = 0 - Scale(Unit, 11)
    /\ twist_log[2].msg.lx = Scale(Unit \div 2, 9)
    /\ ptu_log = <<[speed |-> 30, yaw |-> 53, pitch |-> 0 - 55],
                   [speed |-> 30, yaw |-> 53, pitch |-> 0 - 55]>>

\* C12: a pass of the loop with an arrow token sets pan to
\* clamp(pan + dpan * 2, -55, 55) and tilt to clamp(tilt + dtilt * 2, -55, 55)
\* and leaves the intent and both scale factors; after 40 pan-decrease
\* tokens in a row from pan = 0, pan is -55.
C12_PTUDirectionalToken ==
    [][key' \in DOMAIN PTU_BINDINGS
          => LET p == node.pan_angle + PTU_BINDINGS[key'][1] * 2
                 t == node.tilt_angle + PTU_BINDINGS[key'][2] * 2
             IN  /\ node'.pan_angle =
                       IF p > 55 THEN 55 ELSE IF p < 0 - 55 THEN 0 - 55 ELSE p
                 /\ node'.tilt_angle =
                       IF t > 55 THEN 55 ELSE IF t < 0 - 55 THEN 0 - 55 ELSE t
                 /\ Intent(node') = Intent(node)
                 /\ node'.speed = node.speed /\ node'.turn = node.turn
                 /\ hist'.run = 40 => node'.pan_angle = 0 - 55
      ]_vars

\* the 40th pan-decrease token in a row from pan = 0, while driving
C12_Witness ==
    /\ hist.run = 40
    /\ key = PAN_DECREASE
    /\ node.pan_angle = 0 - 55
    /\ node.tilt_angle = 2
    /\ Intent(node) = <<1, 0, 0, 0>>

\* C16: an angle is even as long as the clamp has not changed it since it was
\* last 0 by construction or reset, and odd from the first clamping on, so a
\* clamped angle is never 0; only the reset token takes a clamped angle back
\* to 0.  For pan and for tilt.
C16_AngleParity ==
    /\ [](/\ hist.pan_clamped <=> node.pan_angle % 2 = 1
          /\ hist.tilt_clamped <=> node.tilt_angle % 2 = 1)
    /\ [][/\ (hist.pan_clamped /\ node'.pan_angle = 0) => key' = SPACE
          /\ (hist.tilt_clamped /\ node'.tilt_angle = 0) => key' = SPACE]_vars

\* both angles clamped earlier and stepped back to next to 0
C16_Witness ==
    /\ hist.pan_clamped /\ node.pan_angle = 1
    /\ hist.tilt_clamped /\ node.tilt_angle = 0 - 1
    /\ key \in DOMAIN PTU_BINDINGS

\* C13: a Twist published by the timer callback is computed from a whole
\* intent: zero or one row of MOVE_BINDINGS (every component in {-1, 0, 1}),
\* the row of the token just processed if that was a movement token; the
\* callback never runs between the assignments of lines 154-157.
C13_NoTornIntent ==
    [][(/\ twist_log' # twist_log
        /\ twist_log'[Len(twist_log')].by = "publish_commands")
          => /\ pc \notin {"update", "move_y", "move_z", "move_th"}
             /\ Intent(node) \in Intents
             /\ \A i \in 1..4 : Intent(node)[i] \in {0 - 1, 0, 1}
             /\ key \in DOMAIN MOVE_BINDINGS => Intent(node) = MOVE_BINDINGS[key]
             /\ LET m == twist_log'[Len(twist_log')].msg
                IN  <<m.lx, m.ly, m.lz, m.az>> =
                       <<node.x * node.speed, node.y * node.speed,
                         node.z * node.speed, node.th * node.turn>>
      ]_vars

\* 'i' processed and published, then 'J' processed and published: the second
\* Twist is J's row alone, no linear.x left over from 'i'
C13_Witness ==
    /\ Len(twist_log) = 2
    /\ key = <<"J">>
    /\ twist_log[1].msg.lx = Unit \div 2 /\ twist_log[1].msg.ly = 0
    /\ twist_log[2].msg.lx = 0 /\ twist_log[2].msg.ly = Unit \div 2
    /\ twist_log[2].by = "publish_commands"

\* C14: whenever get_key has returned, with a token or with '' on timeout,
\* the terminal is back in its original mode: it is never raw while the state
\* update, the status report or the event-processing step with the timer
\* callback runs.
C14_RawModeConfinedToKeyRead ==
    pc \in {"update", "move_y", "move_z", "move_th", "print_status", "spin_once"}
        => term = "orig"

\* get_key has returned '' on timeout, an arrow key having been read and
\* processed before
C14_Witness ==
    /\ pc = "update"
    /\ key = <<>>
    /\ last_key = <<ESC, "[", "D">>
    /\ node.pan_angle = 2
    /\ term = "orig"

\* C15: a run that left the loop by the quit token or by a fault has, when
\* the process ends, performed the whole teardown in the order stop message,
\* terminal restore, destroy_node, shutdown; and at no time is a bus resource
\* released before the stop message is out.
C15_TeardownOrder ==
    /\ (Ended /\ exit_path \in {"quit", "fault"})
          => teardown = <<"stop_robot", "tcsetattr", "destroy_node", "shutdown">>
    /\ \A i \in DOMAIN teardown :
          teardown[i] \in {"destroy_node", "shutdown"}
             => /\ teardown[1] = "stop_robot"
                /\ twist_log # <<>>
                /\ twist_log[Len(twist_log)] = Entry("stop_robot", ZeroTwist)

====
